---- MODULE Spec2Model ----
(***************************************************************************)
(* valmate: an Express middleware factory.  valmate(validations) returns   *)
(* a check function (req, res, next); one invocation of the check function *)
(* is modelled statement by statement.  JavaScript values are records      *)
(* tagged with the string that `typeof` yields for them.                   *)
(***************************************************************************)
EXTENDS Integers, Sequences, FiniteSets

VARIABLES validations, req, res, next, pc, i, test, errorMessage, err,
          invoked, warnings, errorLog, nextCalls, statusCalls, jsonCalls,
          raised, run, history

vars == <<validations, req, res, next, pc, i, test, errorMessage, err,
          invoked, warnings, errorLog, nextCalls, statusCalls, jsonCalls,
          raised, run, history>>

\* Longest rule array passed to valmate.
MaxRules == 2

-----------------------------------------------------------------------------
(* JavaScript values *)

Undefined == [typeof |-> "undefined"]
\* typeof null is "object"
Null == [typeof |-> "object", null |-> TRUE]
Str(s) == [typeof |-> "string", str |-> s]
Num(n) == [typeof |-> "number", num |-> n]
Bool(b) == [typeof |-> "boolean", bool |-> b]
\* a function that returns v when called
Returns(v) == [typeof |-> "function", returns |-> v]
\* a function that throws the Error e when called
Throws(e) == [typeof |-> "function", throws |-> e]
\* an array
Arr(s) == [typeof |-> "object", array |-> TRUE, items |-> s]

MkError(name, message) == [name |-> name, message |-> message]
NoError == MkError("none", "")

TypeOf(v) == v.typeof
Nullish(v) == v = Undefined \/ v = Null
IsArray(v) == "array" \in DOMAIN v
\* v.p for a v that is neither null nor undefined
Get(v, p) == IF p \in DOMAIN v THEN v[p] ELSE Undefined
ToBoolean(v) ==
    CASE TypeOf(v) = "undefined" -> FALSE
      [] TypeOf(v) = "boolean" -> v.bool
      [] TypeOf(v) = "number" -> v.num # 0
      [] TypeOf(v) = "string" -> v.str # ""
      [] OTHER -> v # Null

-----------------------------------------------------------------------------
(* The arguments the model draws *)

ExpressReq == [typeof |-> "object", body |-> TRUE]
Reqs == <<ExpressReq, Null, Undefined>>

\* res.status(code) returns res; res.json(body) sends the body
ExpressRes == [typeof |-> "object", status |-> Returns(Str("res")), json |-> Returns(Undefined)]
CallableRes == [typeof |-> "function", status |-> Returns(Str("res")), json |-> Returns(Undefined)]
NoStatusRes == [typeof |-> "object", json |-> Returns(Undefined)]
NoJsonRes == [typeof |-> "object", status |-> Returns(Str("res"))]
Ress == <<ExpressRes, CallableRes, NoStatusRes, NoJsonRes, Null, Undefined, Str("res")>>

Nexts == <<Returns(Undefined), Throws(MkError("Error", "downstream failed")), Undefined>>

Tests == {Returns(Bool(TRUE)), Returns(Bool(FALSE)),
          Throws(MkError("Error", "test failed")), Str("not-a-function")}
BareRule(t) == [typeof |-> "object", test |-> t]
FullRule(t) == [typeof |-> "object", test |-> t,
                errorMessage |-> Str("Unauthorized"), statusCode |-> Num(401)]
Entries ==
    {BareRule(t) : t \in Tests} \cup {FullRule(t) : t \in Tests}
    \cup {[typeof |-> "object", test |-> Returns(Bool(FALSE)), errorMessage |-> Str("Unauthorized")],
          [typeof |-> "object", test |-> Returns(Bool(FALSE)), statusCode |-> Num(401)],
          [typeof |-> "object"],
          Null}
Arrays == {Arr(s) : s \in UNION {[1..n -> Entries] : n \in 0..MaxRules}}
Args == Arrays \cup {Str("rules"), Null, Undefined}

-----------------------------------------------------------------------------
(* The factory *)

\* the default value of the parameter: test is () => { }, which returns
\* undefined; String || 'Bad request' is String, Number || 400 is Number
DefaultValidations ==
    Arr(<<[typeof |-> "object", test |-> Returns(Undefined),
           errorMessage |-> Returns(Str("")), statusCode |-> Returns(Num(0))]>>)

\* a default parameter applies when the argument is undefined
valmate(arg) == IF arg = Undefined THEN DefaultValidations ELSE arg

Init ==
    /\ \E arg \in Args : validations = valmate(arg)
    /\ \E k \in DOMAIN Reqs : req = Reqs[k]
    /\ \E k \in DOMAIN Ress : res = Ress[k]
    /\ \E k \in DOMAIN Nexts : next = Nexts[k]
    /\ pc = "array"
    /\ i = 1
    /\ test = Undefined
    /\ errorMessage = Undefined
    /\ err = NoError
    /\ invoked = <<>>
    /\ warnings = <<>>
    /\ errorLog = <<>>
    /\ nextCalls = <<>>
    /\ statusCalls = <<>>
    /\ jsonCalls = <<>>
    /\ raised = NoError
    /\ run = 1
    /\ history = <<>>

-----------------------------------------------------------------------------
(* The check function *)

args == <<validations, req, res, next>>
effects == <<invoked, warnings, errorLog, nextCalls, statusCalls, jsonCalls, raised>>

ConfigurationError == MkError("TypeError", "[valmate] Expected an array of validation rules.")
UsageError == MkError("Error", "[valmate] Middleware must be used in an Express route. Check if you are calling it outside of Express context.")

\* if (!Array.isArray(validations)) throw new TypeError(...)
CheckArray ==
    /\ pc = "array"
    /\ IF IsArray(validations)
       THEN pc' = "context" /\ err' = err
       ELSE pc' = "catch" /\ err' = ConfigurationError
    /\ UNCHANGED <<args, i, test, errorMessage, effects, run, history>>

\* the || chain of the context check, left to right; reading a property of
\* null or undefined throws a TypeError
ContextError ==
    IF TypeOf(req) # "object" THEN UsageError
    ELSE IF TypeOf(res) # "object" THEN UsageError
    ELSE IF TypeOf(next) # "function" THEN UsageError
    ELSE IF Nullish(res) THEN MkError("TypeError", "Cannot read properties of null (reading 'status')")
    ELSE IF TypeOf(Get(res, "status")) # "function" THEN UsageError
    ELSE IF TypeOf(Get(res, "json")) # "function" THEN UsageError
    ELSE NoError

CheckContext ==
    /\ pc = "context"
    /\ IF ContextError = NoError
       THEN pc' = "loop" /\ err' = err
       ELSE pc' = "catch" /\ err' = ContextError
    /\ UNCHANGED <<args, i, test, errorMessage, effects, run, history>>

\* for (const { test, errorMessage } of validations): the next element is
\* destructured, which throws on null; past the end the loop exits
Iterate ==
    /\ pc = "loop"
    /\ IF i > Len(validations.items)
       THEN pc' = "next" /\ UNCHANGED <<test, errorMessage, err>>
       ELSE IF Nullish(validations.items[i])
       THEN /\ pc' = "catch"
            /\ err' = MkError("TypeError", "Cannot destructure property 'test' of null")
            /\ UNCHANGED <<test, errorMessage>>
       ELSE /\ pc' = "test"
            /\ test' = Get(validations.items[i], "test")
            /\ errorMessage' = Get(validations.items[i], "errorMessage")
            /\ err' = err
    /\ UNCHANGED <<args, i, effects, run, history>>

\* SkipRule with a rule whose test is not callable counted as a failed rule
SkipRule_AsFailure ==
    /\ pc = "test"
    /\ TypeOf(test) # "function"
    /\ warnings' = Append(warnings, "Warning: A validation \"test\" is not a function.")
    /\ pc' = "fail"
    /\ UNCHANGED <<args, i, test, errorMessage, err, invoked, errorLog, nextCalls,
                   statusCalls, jsonCalls, raised, run, history>>

\* if (typeof test !== 'function') { console.warn(...); continue }
SkipRule ==
    /\ pc = "test"
    /\ TypeOf(test) # "function"
    /\ warnings' = Append(warnings, "Warning: A validation \"test\" is not a function.")
    /\ i' = i + 1
    /\ pc' = "loop"
    /\ UNCHANGED <<args, test, errorMessage, err, invoked, errorLog, nextCalls,
                   statusCalls, jsonCalls, raised, run, history>>

\* CallTest with the loop going on after a falsy result
CallTest_NoStop ==
    /\ pc = "test"
    /\ TypeOf(test) = "function"
    /\ invoked' = Append(invoked, i)
    /\ IF "throws" \in DOMAIN test
       THEN pc' = "catch" /\ err' = test.throws /\ i' = i
       ELSE pc' = "loop" /\ err' = err /\ i' = i + 1
    /\ UNCHANGED <<args, test, errorMessage, warnings, errorLog, nextCalls,
                   statusCalls, jsonCalls, raised, run, history>>

\* const isValid = test(req); if (!isValid) ...
CallTest ==
    /\ pc = "test"
    /\ TypeOf(test) = "function"
    /\ invoked' = Append(invoked, i)
    /\ IF "throws" \in DOMAIN test
       THEN pc' = "catch" /\ err' = test.throws /\ i' = i
       ELSE IF ToBoolean(test.returns)
       THEN pc' = "loop" /\ err' = err /\ i' = i + 1
       ELSE pc' = "fail" /\ err' = err /\ i' = i
    /\ UNCHANGED <<args, test, errorMessage, warnings, errorLog, nextCalls,
                   statusCalls, jsonCalls, raised, run, history>>

\* return res.status(statusCode).json(...): statusCode is bound neither by
\* the destructuring nor anywhere else, so evaluating the argument throws a
\* ReferenceError before res.status is called
RespondFail ==
    /\ pc = "fail"
    /\ pc' = "catch"
    /\ err' = MkError("ReferenceError", "statusCode is not defined")
    /\ UNCHANGED <<args, i, test, errorMessage, effects, run, history>>

\* next(), inside the try block
CallNext ==
    /\ pc = "next"
    /\ nextCalls' = Append(nextCalls, <<>>)
    /\ IF "throws" \in DOMAIN next
       THEN pc' = "catch" /\ err' = next.throws
       ELSE pc' = "done" /\ err' = err
    /\ UNCHANGED <<args, i, test, errorMessage, invoked, warnings, errorLog,
                   statusCalls, jsonCalls, raised, run, history>>

\* InternalErrorBody with the caught error's message in the body
LeakedErrorBody == [status |-> Num(500), message |-> Str(err.message)]

InternalErrorStatus == Num(500)
InternalErrorBody == [status |-> Num(500), message |-> Str("Internal server error")]

\* Catch with the caught error thrown again instead of answered
Catch_Rethrow ==
    /\ pc = "catch"
    /\ pc' = "done"
    /\ errorLog' = Append(errorLog, err.message)
    /\ raised' = err
    /\ UNCHANGED <<args, i, test, errorMessage, err, invoked, warnings, nextCalls,
                   statusCalls, jsonCalls, run, history>>

\* catch (err) { console.error(..., err.message);
\*               return res.status(500).json({...}) }
\* an error thrown here leaves the check function
Catch ==
    /\ pc = "catch"
    /\ pc' = "done"
    /\ errorLog' = Append(errorLog, err.message)
    /\ IF Nullish(res) \/ TypeOf(Get(res, "status")) # "function"
       THEN /\ raised' = MkError("TypeError", "res.status is not a function")
            /\ UNCHANGED <<statusCalls, jsonCalls>>
       ELSE /\ statusCalls' = Append(statusCalls, InternalErrorStatus)
            /\ IF TypeOf(Get(res, "json")) # "function"
               THEN /\ raised' = MkError("TypeError", "res.status(...).json is not a function")
                    /\ UNCHANGED jsonCalls
               ELSE /\ jsonCalls' = Append(jsonCalls, InternalErrorBody)
                    /\ UNCHANGED raised
    /\ UNCHANGED <<args, i, test, errorMessage, err, invoked, warnings, nextCalls,
                   run, history>>

-----------------------------------------------------------------------------
(* A second gate, built from the same rules without the rules whose test   *)
(* is not callable, is invoked with the same arguments once the first      *)
(* invocation has returned.                                                *)

Outcome == [validations |-> validations, invoked |-> invoked, nextCalls |-> nextCalls,
            statusCalls |-> statusCalls, jsonCalls |-> jsonCalls, raised |-> raised]

HasCallableTest(e) == Nullish(e) \/ TypeOf(Get(e, "test")) = "function"
CallableOnly(v) == IF IsArray(v) THEN Arr(SelectSeq(v.items, HasCallableTest)) ELSE v

Reinvoke ==
    /\ pc = "done"
    /\ run = 1
    /\ history' = Append(history, Outcome)
    /\ run' = 2
    /\ validations' = valmate(CallableOnly(validations))
    /\ pc' = "array"
    /\ i' = 1
    /\ test' = Undefined
    /\ errorMessage' = Undefined
    /\ err' = NoError
    /\ invoked' = <<>>
    /\ warnings' = <<>>
    /\ errorLog' = <<>>
    /\ nextCalls' = <<>>
    /\ statusCalls' = <<>>
    /\ jsonCalls' = <<>>
    /\ raised' = NoError
    /\ UNCHANGED <<req, res, next>>

Next ==
    \/ CheckArray
    \/ CheckContext
    \/ Iterate
    \/ SkipRule
    \/ CallTest
    \/ RespondFail
    \/ CallNext
    \/ Catch
    \/ Reinvoke

Spec == Init /\ [][Next]_vars

-----------------------------------------------------------------------------
(* Vocabulary of the properties *)

Done == pc = "done"
Items == validations.items
Callable(e) == ~Nullish(e) /\ TypeOf(Get(e, "test")) = "function"
Passes(e) == Callable(e) /\ "returns" \in DOMAIN e.test /\ ToBoolean(e.test.returns)
Fails(e) == Callable(e) /\ "returns" \in DOMAIN e.test /\ ~ToBoolean(e.test.returns)
Raises(e) == Callable(e) /\ "throws" \in DOMAIN e.test
Last(s) == s[Len(s)]

\* a genuine triple: req and res are non-null objects, next is a function,
\* res.status and res.json are functions
ValidTriple ==
    /\ TypeOf(req) = "object" /\ req # Null
    /\ TypeOf(res) = "object" /\ res # Null
    /\ TypeOf(next) = "function"
    /\ TypeOf(Get(res, "status")) = "function"
    /\ TypeOf(Get(res, "json")) = "function"

\* res.status(...).json(...) can be carried out on res
ResUsable ==
    /\ ~Nullish(res)
    /\ TypeOf(Get(res, "status")) = "function"
    /\ TypeOf(Get(res, "json")) = "function"

\* the context check of this invocation threw
ContextFailed == IsArray(validations) /\ ContextError # NoError /\ err = ContextError

NoResponse == statusCalls = <<>> /\ jsonCalls = <<>>
Sent500 ==
    /\ statusCalls = <<Num(500)>>
    /\ jsonCalls = <<[status |-> Num(500), message |-> Str("Internal server error")]>>

\* C1: when every rule's test returns a truthy value (the empty array
\* included), an invocation with a valid triple calls next exactly once, with
\* no arguments, and calls neither res.status nor res.json.
C1_AllPassProceeds ==
    (Done /\ ValidTriple /\ IsArray(validations)
          /\ \A k \in 1..Len(Items) : Passes(Items[k]))
    => (nextCalls = << <<>> >> /\ NoResponse)

ExpectedStatus(rule) == IF "statusCode" \in DOMAIN rule THEN rule.statusCode ELSE Num(400)
ExpectedMessage(rule) == IF "errorMessage" \in DOMAIN rule THEN rule.errorMessage ELSE Str("Bad request")

\* C2: when the first failing rule is rule k, exactly one response is sent,
\* with rule k's statusCode (400 when it has none) as the HTTP status and
\* {status: that code, message: rule k's errorMessage or "Bad request"} as
\* the body.
C2_FailingRuleResponse ==
    (Done /\ ValidTriple /\ IsArray(validations) /\ invoked # <<>>
          /\ Fails(Items[Last(invoked)]))
    => /\ statusCalls = <<ExpectedStatus(Items[Last(invoked)])>>
       /\ jsonCalls = <<[status |-> ExpectedStatus(Items[Last(invoked)]),
                         message |-> ExpectedMessage(Items[Last(invoked)])]>>

\* C3: within one invocation the tests are invoked in array order, each at
\* most once, only callable ones, and no test is invoked after one that
\* returned a falsy value.
C3_OrderedShortCircuit ==
    IsArray(validations) =>
       /\ \A a \in 1..Len(invoked) : invoked[a] \in 1..Len(Items) /\ Callable(Items[invoked[a]])
       /\ \A a, b \in 1..Len(invoked) : a < b => (invoked[a] < invoked[b] /\ ~Fails(Items[invoked[a]]))

\* a failing first rule ended the invocation before the callable second rule
C3_Witness ==
    /\ Done /\ run = 1 /\ IsArray(validations) /\ Len(Items) = 2
    /\ Fails(Items[1]) /\ Callable(Items[2])
    /\ invoked = <<1>>

\* C4: next is called at most once per invocation, never in an invocation in
\* which an error occurs, and never together with a response.
C4_NextExclusive ==
    Done => /\ Len(nextCalls) <= 1
            /\ nextCalls # <<>> => (err = NoError /\ NoResponse)

\* C5: with a non-array passed to valmate, the invocation raises a
\* TypeError to its caller, sends no response and does not call next.
C5_ConfigurationErrorRaised ==
    (Done /\ ~IsArray(validations))
    => (raised.name = "TypeError" /\ NoResponse /\ nextCalls = <<>>)

\* C6: with a malformed triple no rule's test is invoked and next is not
\* called.
C6_MalformedTripleRejected ==
    ~ValidTriple => (invoked = <<>> /\ nextCalls = <<>>)

Rank(items, k) == Cardinality({j \in 1..k : HasCallableTest(items[j])})
Renumber(items, s) == [a \in 1..Len(s) |-> Rank(items, s[a])]
OnlyNonCallable(v) ==
    IsArray(v) /\ Len(v.items) > 0
    /\ \A k \in 1..Len(v.items) : ~Nullish(v.items[k]) /\ ~Callable(v.items[k])

\* C8: the outcome of an invocation (the calls of next, the responses, the
\* error raised, the callable tests invoked in order) equals the outcome for
\* the array without the rules whose test is not callable; an array of only
\* such rules calls next exactly once.
C8_NonCallableSkipped ==
    /\ (Done /\ run = 2) =>
          /\ nextCalls = history[1].nextCalls
          /\ statusCalls = history[1].statusCalls
          /\ jsonCalls = history[1].jsonCalls
          /\ raised = history[1].raised
          /\ IsArray(validations) =>
                invoked = Renumber(history[1].validations.items, history[1].invoked)
    /\ (Done /\ ValidTriple /\ OnlyNonCallable(validations)) => Len(nextCalls) = 1

\* the first gate skipped its first rule and invoked the test of its second
C8_Witness ==
    /\ Done /\ run = 2 /\ ValidTriple /\ IsArray(history[1].validations)
    /\ Len(history[1].validations.items) = 2
    /\ ~Callable(history[1].validations.items[1])
    /\ history[1].invoked = <<2>>
    /\ invoked = <<1>>

C10_DefaultIsEmpty ==
    (Done /\ ValidTriple /\ validations = valmate(Undefined))
    => (nextCalls = << <<>> >> /\ NoResponse)

====
